---- MODULE Spec2Model ----
(***************************************************************************)
(* Model of the job-matching engine of app/services/ml/                    *)
(* recommendation_engine.py (class RecommendationEngine).                  *)
(*                                                                         *)
(* Conventions.                                                            *)
(*   - A Python str is a sequence of one-character strings; " " is the    *)
(*     blank.  NonStr stands for a truthy value that is not a str.         *)
(*   - A match_score is an integer number of tenths of a percent, so       *)
(*     100.0 is 1000 and 70.0 is 700.                                      *)
(*   - A raw cosine similarity is an integer number of 1/10000.            *)
(*   - A Python dict with optional keys is a record; an absent key is the  *)
(*     value the code's .get default gives.                                *)
(***************************************************************************)
EXTENDS Integers, Sequences, FiniteSets, TLC

VARIABLES
    rk,                 \* harness of a pure function (ranker, job source): inputs and result
    job_cache,          \* RecommendationEngine._job_cache
    pagination_state,   \* RecommendationEngine._pagination_state
    last,               \* observation of the last engine call (arguments, path, result)
    held,               \* the list object last handed to a caller that is also a cache entry
    stored              \* the keys whose entry is as a page 1 recommendation fetch stored it

vars == <<rk, job_cache, pagination_state, last, held, stored>>

----------------------------------------------------------------------------
(* Bounds of the model *)

\* longest posting list given to the pure ranker
MaxJobs == 2

\* largest requested count N given to the pure ranker
MaxN == 3

\* pages an engine call asks for: 1..MaxPage
MaxPage == 2

\* ids of the postings in the short batches a job source returns: 1..MaxId + 1
MaxId == 1

----------------------------------------------------------------------------
(* Program constants *)

\* postings per page of get_job_recommendations: the limit given to the sources,
\* the count given to the ranker and the width of a cached page
JobsPerPage == 10

----------------------------------------------------------------------------
(* Python values *)

None == "None"

NonStr == <<"#">>

Blank == " "

Min(a, b) == IF a <= b THEN a ELSE b

Max(a, b) == IF a >= b THEN a ELSE b

\* str.strip(): drop leading and trailing blanks
RECURSIVE LStrip(_)
LStrip(s) ==
    IF s = <<>> THEN <<>>
    ELSE IF Head(s) = Blank THEN LStrip(Tail(s)) ELSE s

RECURSIVE RStrip(_)
RStrip(s) ==
    IF s = <<>> THEN <<>>
    ELSE IF s[Len(s)] = Blank THEN RStrip(SubSeq(s, 1, Len(s) - 1)) ELSE s

Strip(s) == RStrip(LStrip(s))

\* truthiness of a str (or of NonStr): non-empty
Truthy(s) == s # <<>>

\* the text has at least one character a tokenizer can turn into a term
HasTokens(s) == s # NonStr /\ Strip(s) # <<>>

\* str.lower() on the alphabet of the model
Lower(s) == [i \in 1..Len(s) |->
                CASE s[i] = "A" -> "a" [] s[i] = "B" -> "b" [] s[i] = "C" -> "c"
                  [] s[i] = "I" -> "i" [] s[i] = "N" -> "n" [] s[i] = "P" -> "p"
                  [] s[i] = "U" -> "u"
                  [] OTHER -> s[i]]

\* t in s, for two strs
IsSubstring(t, s) ==
    \E i \in 0..(Len(s) - Len(t)) : SubSeq(s, i + 1, i + Len(t)) = t

\* sep.join(parts)
RECURSIVE Join(_, _)
Join(parts, sep) ==
    IF parts = <<>> THEN <<>>
    ELSE IF Len(parts) = 1 THEN parts[1]
    ELSE parts[1] \o sep \o Join(Tail(parts), sep)

\* str.split(): the maximal runs of non-blank characters
RECURSIVE SplitWords(_, _)
SplitWords(s, word) ==
    IF s = <<>> THEN (IF word = <<>> THEN <<>> ELSE <<word>>)
    ELSE IF Head(s) = Blank
         THEN (IF word = <<>> THEN <<>> ELSE <<word>>) \o SplitWords(Tail(s), <<>>)
         ELSE SplitWords(Tail(s), Append(word, Head(s)))

Split(s) == SplitWords(s, <<>>)

\* [x.strip() for x in items if x and x.strip()]
CleanList(items) ==
    LET kept == SelectSeq(items, LAMBDA x : Truthy(x) /\ Truthy(Strip(x)))
    IN  [i \in 1..Len(kept) |-> Strip(kept[i])]

----------------------------------------------------------------------------
(* _match_jobs_to_profile and _fallback_job_ranking *)

\* lines 260-264: the text a posting is compared by
JobContent(job) ==
    IF Truthy(job.content) THEN job.content
    ELSE Strip(job.title \o <<Blank>> \o job.description)

\* lines 258-268: the postings kept for scoring
ValidJobs(jobs) == SelectSeq(jobs, LAMBDA j : Truthy(JobContent(j)))

\* round(x, 1) of a percentage given in 1/100 of a percent: round half to even
RoundTenths(x) ==
    LET q == x \div 10
        r == x % 10
    IN  IF r > 5 \/ (r = 5 /\ q % 2 = 1) THEN q + 1 ELSE q

\* line 308: min(round(float(score) * 100, 1), 100.0)
MatchPercentage(sim) == Min(RoundTenths(sim), 1000)

\* an insertion that puts a posting before those of equal score
InsertBeforeTies(sorted, x) ==
    LET k == Cardinality({i \in 1..Len(sorted) : sorted[i].match_score > x.match_score})
    IN  SubSeq(sorted, 1, k) \o <<x>> \o SubSeq(sorted, k + 1, Len(sorted))

\* sorted(..., key=match_score, reverse=True) is a stable sort: a posting goes
\* after those of greater or equal score that precede it
InsertDesc(sorted, x) ==
    LET k == Cardinality({i \in 1..Len(sorted) : sorted[i].match_score >= x.match_score})
    IN  SubSeq(sorted, 1, k) \o <<x>> \o SubSeq(sorted, k + 1, Len(sorted))

RECURSIVE SortDesc(_)
SortDesc(s) ==
    IF s = <<>> THEN <<>>
    ELSE InsertDesc(SortDesc(SubSeq(s, 1, Len(s) - 1)), s[Len(s)])

\* s[:n] for n >= 0
Take(s, n) == SubSeq(s, 1, Min(n, Len(s)))

WithScore(job, score) == [id |-> job.id, title |-> job.title,
                          description |-> job.description,
                          content |-> job.content, match_score |-> score]

\* lines 328-343; rand[i] is the value random.uniform gives for the i-th posting
FallbackJobRanking(jobs, num_recommendations, rand) ==
    LET scored == [i \in 1..Len(jobs) |-> WithScore(jobs[i], rand[i])]
    IN  Take(SortDesc(scored), num_recommendations)

\* the same without the sort of lines 313-317
TfidfRankingUnsorted(valid, num_recommendations, sims) ==
    LET scored == [i \in 1..Len(valid) |-> WithScore(valid[i], MatchPercentage(sims[i]))]
    IN  Take(scored, num_recommendations)

\* lines 303-320
TfidfRanking(valid, num_recommendations, sims) ==
    LET scored == [i \in 1..Len(valid) |-> WithScore(valid[i], MatchPercentage(sims[i]))]
    IN  Take(SortDesc(scored), num_recommendations)

\* lines 251-325.  lib is what the libraries do in this call: lib.raises is whether
\* fit_transform or cosine_similarity raises, lib.sims the similarities they give,
\* lib.rand the random numbers drawn by the fallback.
RankPath(user_profile, jobs, lib) ==
    IF ~Truthy(user_profile) \/ jobs = <<>> THEN "empty"
    ELSE IF ValidJobs(jobs) = <<>> THEN "empty"
    ELSE IF \E i \in 1..Len(ValidJobs(jobs)) : JobContent(ValidJobs(jobs)[i]) = NonStr
         THEN "fallback"
    ELSE IF lib.raises THEN "fallback"
    ELSE "tfidf"

\* the same without the try/except of lines 274 and 322: a library exception
\* reaches the caller
MatchJobsNoExcept(user_profile, jobs, num_recommendations, lib) ==
    LET path == RankPath(user_profile, jobs, lib)
        valid == ValidJobs(jobs)
        nonstr == \E i \in 1..Len(valid) : JobContent(valid[i]) = NonStr
    IN  CASE path = "empty" -> [raised |-> FALSE, value |-> <<>>]
          [] path = "fallback" /\ nonstr ->
                [raised |-> FALSE,
                 value |-> FallbackJobRanking(valid, num_recommendations, lib.rand)]
          [] path = "fallback" /\ ~nonstr -> [raised |-> TRUE, value |-> <<>>]
          [] path = "tfidf" ->
                [raised |-> FALSE,
                 value |-> TfidfRanking(valid, num_recommendations, lib.sims)]

\* the outcome of a call: the list returned, or raised = TRUE when an exception
\* leaves the function (the except clause of line 322 catches them all)
MatchJobsToProfile(user_profile, jobs, num_recommendations, lib) ==
    LET path == RankPath(user_profile, jobs, lib)
        valid == ValidJobs(jobs)
    IN  CASE path = "empty" -> [raised |-> FALSE, value |-> <<>>]
          [] path = "fallback" ->
                [raised |-> FALSE,
                 value |-> FallbackJobRanking(valid, num_recommendations, lib.rand)]
          [] path = "tfidf" ->
                [raised |-> FALSE,
                 value |-> TfidfRanking(valid, num_recommendations, lib.sims)]

----------------------------------------------------------------------------
(* What the libraries can do *)

\* similarities cosine_similarity can give, in 1/10000: 1/3, a tie at .x5, 1
\* and 1 plus a floating-point excess
RawSims == {0, 3333, 5005, 10000, 10001}

\* values round(random.uniform(70.0, 95.0), 1) can give: both ends of the range
FallbackScores == {700, 950}

\* The outcomes for a call on texts (the valid postings' contents) and a profile.
\* The vectorizer raises when no text has a term (empty vocabulary); any call may
\* raise for another reason.  A posting or a profile without a term has a zero
\* vector, so its similarity is 0.
LibOutcomes(user_profile, valid) ==
    LET n == Len(valid)
        zero == [i \in 1..n |-> 0]
        low == [i \in 1..n |-> 700]
        nonstr == \E i \in 1..n : JobContent(valid[i]) = NonStr
        noterm == ~HasTokens(user_profile) /\ \A i \in 1..n : ~HasTokens(JobContent(valid[i]))
        sims == {f \in [1..n -> RawSims] :
                    \A i \in 1..n :
                        (~HasTokens(user_profile) \/ ~HasTokens(JobContent(valid[i]))) => f[i] = 0}
    IN  {[raises |-> TRUE, sims |-> zero, rand |-> r] : r \in [1..n -> FallbackScores]}
        \cup (IF nonstr \/ noterm THEN {}
              ELSE {[raises |-> FALSE, sims |-> s, rand |-> low] : s \in sims})

----------------------------------------------------------------------------
(* Candidate data and _create_user_profile *)

\* profile_parts.extend([skill] * 3) for each skill
RECURSIVE Weighted(_)
Weighted(skills) ==
    IF skills = <<>> THEN <<>>
    ELSE <<skills[1], skills[1], skills[1]>> \o Weighted(Tail(skills))

\* the same with every skill once
CreateUserProfileUnweighted(skills, experience, education) ==
    Join(CleanList(skills) \o CleanList(experience) \o CleanList(education), <<Blank>>)

\* lines 212-232
CreateUserProfile(skills, experience, education) ==
    Join(Weighted(CleanList(skills)) \o CleanList(experience) \o CleanList(education),
         <<Blank>>)

\* The arguments skills, experience, education of a call.  exp_given = FALSE is a
\* call that omits experience, which then is None (line 29).
Candidates ==
    { [skills |-> << <<"a">> >>, exp_given |-> TRUE,
       experience |-> << <<"a", Blank, "b">> >>, education |-> <<>>],
      [skills |-> << <<"a">> >>, exp_given |-> FALSE,
       experience |-> <<>>, education |-> << <<"b">> >>],
      [skills |-> <<>>, exp_given |-> FALSE,
       experience |-> <<>>, education |-> << <<"b">> >>],
      [skills |-> <<>>, exp_given |-> TRUE,
       experience |-> <<>>, education |-> <<>>] }

----------------------------------------------------------------------------
(* The job sources *)

\* a posting as a source builds it from an upstream record with this id; its
\* content is f"{title} {snippet} {company}" with no snippet and no company
SourcePosting(id) ==
    LET title == CASE id % 3 = 1 -> <<"A">>
                   [] id % 3 = 2 -> <<"a", Blank, "b">>
                   [] OTHER -> <<>>
    IN  [id |-> id, title |-> title, description |-> <<>>,
         content |-> title \o <<Blank, Blank>>]

\* the id lists a source returns: nothing, one posting, two postings, one posting
\* twice
IdBatches ==
    {<<>>, <<1, 1>>}
        \cup {<<i>> : i \in 1..MaxId}
        \cup {<<i, i + 1>> : i \in 1..MaxId}

Batch(ids) == [i \in 1..Len(ids) |-> SourcePosting(ids[i])]

Batches == {Batch(ids) : ids \in IdBatches}

SecondaryBatches == {Batch(ids) : ids \in {<<>>, <<MaxId + 1>>}}

\* What the two sources return in one call when asked: the secondary source is
\* asked only after the primary gave nothing.
Replies ==
    {[primary |-> pb, secondary |-> sb] :
        pb \in Batches, sb \in SecondaryBatches} \ 
    {[primary |-> pb, secondary |-> sb] :
        pb \in Batches \ {<<>>}, sb \in SecondaryBatches \ {<<>>}}

\* the similarity the libraries give a posting with terms against a profile with terms
SimOfId(id) == CASE id % 3 = 1 -> 3333 [] id % 3 = 2 -> 10001 [] OTHER -> 5005

\* The library outcomes of a ranking inside an engine call: the similarities are
\* fixed by the posting, the fallback's random numbers alternate.
EngineLibs(user_profile, valid) ==
    LET n == Len(valid)
        noterm == ~HasTokens(user_profile) /\ \A i \in 1..n : ~HasTokens(JobContent(valid[i]))
    IN  {[raises |-> TRUE, sims |-> [i \in 1..n |-> 0],
          rand |-> [i \in 1..n |-> IF i % 2 = 1 THEN 700 ELSE 950]]}
        \cup (IF noterm THEN {}
              ELSE {[raises |-> FALSE,
                     sims |-> [i \in 1..n |->
                                 IF HasTokens(user_profile) /\ HasTokens(JobContent(valid[i]))
                                 THEN SimOfId(valid[i].id) ELSE 0],
                     rand |-> [i \in 1..n |-> 700]]})

----------------------------------------------------------------------------
(* The engine's state *)

Keys == {"k1", "k2"}

\* a cache_key argument: a key, or None
IsKey(key) == key # None

\* dict operations
Put(d, k, v) == [x \in (DOMAIN d) \cup {k} |-> IF x = k THEN v ELSE d[x]]

Del(d, k) == [x \in (DOMAIN d) \ {k} |-> d[x]]

EmptyDict == [x \in {} |-> <<>>]

\* what a caller sees of a call
Obs(op, key, page, force, raised, served, primary, secondary, fetched, result) ==
    [op |-> op, key |-> key, page |-> page, force |-> force, raised |-> raised,
     served |-> served, primary |-> primary, secondary |-> secondary,
     fetched |-> fetched, result |-> result, dropped |-> 0, primary_count |-> 0,
     num |-> 0, answer |-> FALSE]

\* what a caller sees of a get_job_recommendations call: also the
\* num_recommendations it gave
Recs(num, obs) == [obs EXCEPT !.num = num]

\* what a caller sees of a has_more_jobs call
Answered(key, answer) ==
    [Obs("has_more", key, 0, FALSE, FALSE, FALSE, FALSE, FALSE, 0, <<>>)
        EXCEPT !.answer = answer]

\* what a caller and the primary source see of a call that asked the primary
\* source and got primary_count postings from it
Asking(obs, primary_count) == [obs EXCEPT !.primary_count = primary_count]

\* what a caller sees of a clear_cache call; dropped counts the keys that had an
\* entry or a pagination state and lost it
Cleared(op, key, dropped) ==
    [Obs(op, key, 0, FALSE, FALSE, FALSE, FALSE, FALSE, 0, <<>>) EXCEPT !.dropped = dropped]

NoCall == Obs("none", None, 0, FALSE, FALSE, FALSE, FALSE, FALSE, 0, <<>>)

\* held: the list object that is the cache entry of held.key and was last handed
\* to a caller; snap is its contents when it was handed over, now its contents at
\* present
NoHeld == [key |-> None, snap |-> <<>>, now |-> <<>>]

Alias(key, items) == [key |-> key, snap |-> items, now |-> items]

\* the cache entry of key is rebound or deleted: the held object leaves the cache
Detach(h, key) == IF h.key = key THEN NoHeld ELSE h

\* the list object that is the cache entry of key now holds items
Mutate(h, key, items) == IF h.key = key THEN [h EXCEPT !.now = items] ELSE h

\* the new postings put in front of the entry
PrependNew(existing_jobs, new_jobs) ==
    LET existing_ids == {existing_jobs[i].id : i \in 1..Len(existing_jobs)}
    IN  SelectSeq(new_jobs, LAMBDA job : job.id \notin existing_ids) \o existing_jobs

\* lines 144-147 and 533-537: existing_ids is computed once, then each new posting
\* whose id is not in it is appended
AppendNew(existing_jobs, new_jobs) ==
    LET existing_ids == {existing_jobs[i].id : i \in 1..Len(existing_jobs)}
    IN  existing_jobs \o SelectSeq(new_jobs, LAMBDA job : job.id \notin existing_ids)

\* cached_jobs[start_idx:end_idx] if len(cached_jobs) > start_idx else []
CachedPage(cached_jobs, page) ==
    LET start_idx == (page - 1) * JobsPerPage
        end_idx == start_idx + JobsPerPage
    IN  IF Len(cached_jobs) > start_idx
        THEN SubSeq(cached_jobs, start_idx + 1, Min(end_idx, Len(cached_jobs)))
        ELSE <<>>

----------------------------------------------------------------------------
(* get_job_recommendations, lines 26-155 *)

\* lines 52-55
ResetPagination(key, force, page) ==
    IF (force \/ page = 1) /\ IsKey(key)
    THEN Put(pagination_state, key, [current_page |-> 1, has_more |-> TRUE])
    ELSE pagination_state

\* the same with current_page > page
RecsCacheHitStrict(pag, key, force, page) ==
    /\ IsKey(key) /\ ~force
    /\ (IF key \in DOMAIN pag THEN pag[key].current_page ELSE 0) > page
    /\ key \in DOMAIN job_cache

\* lines 58-60
RecsCacheHit(pag, key, force, page) ==
    /\ IsKey(key) /\ ~force
    /\ (IF key \in DOMAIN pag THEN pag[key].current_page ELSE 0) >= page
    /\ key \in DOMAIN job_cache

\* the same without force_refresh
RecsReplacesFirstPage(key, force, page) == page = 1 \/ key \notin DOMAIN job_cache

\* line 136: the entry is replaced (or created) rather than appended to
RecsReplaces(key, force, page) == page = 1 \/ force \/ key \notin DOMAIN job_cache

\* On a call that omits experience, _extract_search_keywords (lines 91, 107) and
\* _create_user_profile (line 117) iterate over None: a TypeError leaves the call.
\* The primary source has been asked before that when the keywords came from
\* education (lines 69-88).
ByEducation(cand) == cand.skills = <<>> /\ (~cand.exp_given \/ cand.experience = <<>>)

\* lines 57-66: the page is served from the cache
RecsFromCache(key, force, page, num) ==
    LET pag1 == ResetPagination(key, force, page)
    IN  /\ RecsCacheHit(pag1, key, force, page)
        /\ last' = Recs(num, Obs("recs", key, page, force, FALSE, TRUE, FALSE, FALSE, 0,
                                 CachedPage(job_cache[key], page)))
        /\ pagination_state' = pag1
        /\ UNCHANGED <<job_cache, held, stored>>

\* no cache hit, experience omitted: the call raises
RecsRaises(cand, key, force, page, num, pb) ==
    LET pag1 == ResetPagination(key, force, page)
    IN  /\ ~RecsCacheHit(pag1, key, force, page)
        /\ ~cand.exp_given
        /\ last' = Recs(num,
                        Asking(Obs("recs", key, page, force, TRUE, FALSE, ByEducation(cand),
                                   FALSE, IF ByEducation(cand) THEN Len(pb) ELSE 0, <<>>),
                               IF ByEducation(cand) THEN Len(pb) ELSE 0))
        /\ pagination_state' = pag1
        /\ UNCHANGED <<job_cache, held, stored>>

\* has_more whatever was fetched
HasMoreAlways(available_jobs) == TRUE

\* line 132
HasMoreAfter(available_jobs) == Len(available_jobs) > 0

\* lines 126-150: the pagination state and the cache after a fetch of
\* available_jobs ranked as recommendations
RecsStores(key, force, page, available_jobs, recommendations) ==
    LET pag1 == ResetPagination(key, force, page)
        info == IF key \in DOMAIN pag1 THEN pag1[key]
                ELSE [current_page |-> 0, has_more |-> TRUE]
        pag2 == Put(pag1, key, [current_page |-> Max(info.current_page, page),
                                has_more |-> HasMoreAfter(available_jobs)])
    IN  IF IsKey(key)
        THEN /\ pagination_state' = pag2
             /\ IF RecsReplaces(key, force, page)
                THEN /\ job_cache' = Put(job_cache, key, recommendations)
                     /\ held' = Alias(key, recommendations)
                ELSE \E entry \in {AppendNew(job_cache[key], recommendations)} :
                       /\ job_cache' = Put(job_cache, key, entry)
                       /\ held' = Mutate(held, key, entry)
             /\ stored' = IF page = 1 THEN stored \cup {key} ELSE stored \ {key}
        ELSE /\ pagination_state' = pag1
             /\ UNCHANGED <<job_cache, held, stored>>

\* lines 68-155: no cache hit; pb and sb are what the primary and the secondary
\* source return when asked, lib what the libraries do when the ranker runs.
\* (\E x \in {e} names the value of e.)
RecsFetches(cand, key, force, page, num, pb, sb) ==
    /\ ~RecsCacheHit(ResetPagination(key, force, page), key, force, page)
    /\ cand.exp_given
    /\ \E available_jobs \in {IF pb = <<>> THEN sb ELSE pb},
          user_profile \in {CreateUserProfile(cand.skills, cand.experience, cand.education)} :
          \E lib \in EngineLibs(user_profile, ValidJobs(available_jobs)) :
             \E recommendations \in
                   {MatchJobsToProfile(user_profile, available_jobs, JobsPerPage, lib).value} :
                /\ last' = Recs(num,
                                Asking(Obs("recs", key, page, force, FALSE, FALSE, TRUE,
                                           pb = <<>>, Len(available_jobs), recommendations),
                                       Len(pb)))
                /\ RecsStores(key, force, page, available_jobs, recommendations)

\* lines 26-155: what a call of get_job_recommendations does to the engine
RecsCall(cand, key, force, page, num, reply) ==
    \/ RecsFromCache(key, force, page, num)
    \/ RecsRaises(cand, key, force, page, num, reply.primary)
    \/ RecsFetches(cand, key, force, page, num, reply.primary, reply.secondary)

\* one call of get_job_recommendations
GetJobRecommendations(cand, key, force, page, num, reply) ==
    /\ RecsCall(cand, key, force, page, num, reply)
    /\ UNCHANGED rk

----------------------------------------------------------------------------
(* search_jobs, lines 445-546 *)

\* lines 503-515
RECURSIVE Relevance(_, _)
Relevance(job, terms) ==
    IF terms = <<>> THEN 0
    ELSE LET term == Lower(Head(terms))
         IN  (IF IsSubstring(term, Lower(job.title)) THEN 5 ELSE 0)
             + (IF IsSubstring(term, Lower(job.content)) THEN 1 ELSE 0)
             + Relevance(job, Tail(terms))

\* relevance * 10 without the cap of line 518
UncappedScore(job, terms) == Relevance(job, terms) * 100

\* line 518: min(relevance * 10, 100.0), in tenths of a percent
SearchScore(job, terms) == Min(Relevance(job, terms) * 100, 1000)

\* line 525: the entry is replaced (or created) rather than appended to
SearchReplaces(key, page) == page = 1 \/ key \notin DOMAIN job_cache

Queries == {<<"A", Blank, "b">>}

SearchSizes == {1, JobsPerPage}

\* lines 468-480: the cache is read instead of the sources
SearchCacheHit(key, page, size, fetch_more) ==
    /\ ~(fetch_more \/ page = 1)
    /\ IsKey(key) /\ key \in DOMAIN job_cache
    /\ Len(job_cache[key]) >= page * size

\* lines 468-482: should_fetch_new when the sources are asked
SearchFetchesNew(key, page, size, fetch_more) ==
    \/ fetch_more \/ page = 1
    \/ /\ IsKey(key) /\ key \in DOMAIN job_cache
       /\ Len(job_cache[key]) < page * size

\* lines 471-477: the whole cached list is returned, the list object itself
SearchFromCache(key, page, size, fetch_more) ==
    /\ SearchCacheHit(key, page, size, fetch_more)
    /\ last' = Obs("search", key, page, FALSE, FALSE, TRUE, FALSE, FALSE, 0, job_cache[key])
    /\ held' = Alias(key, job_cache[key])
    /\ UNCHANGED <<job_cache, stored>>

\* lines 544-546
SearchNothing(key, page, size, fetch_more) ==
    /\ ~SearchCacheHit(key, page, size, fetch_more)
    /\ ~SearchFetchesNew(key, page, size, fetch_more)
    /\ last' = Obs("search", key, page, FALSE, FALSE, FALSE, FALSE, FALSE, 0, <<>>)
    /\ UNCHANGED <<job_cache, held, stored>>

\* lines 502-521: score each posting by the search terms and sort
SearchRanking(jobs, search_keywords) ==
    SortDesc([i \in 1..Len(jobs) |->
                 WithScore(jobs[i], SearchScore(jobs[i], search_keywords))])

\* lines 523-541
SearchStores(key, page, sorted_jobs) ==
    IF IsKey(key)
    THEN /\ IF SearchReplaces(key, page)
            THEN /\ job_cache' = Put(job_cache, key, sorted_jobs)
                 /\ held' = Alias(key, sorted_jobs)
            ELSE \E entry \in {AppendNew(job_cache[key], sorted_jobs)} :
                   /\ job_cache' = Put(job_cache, key, entry)
                   /\ held' = Mutate(held, key, entry)
         /\ stored' = stored \ {key}
    ELSE UNCHANGED <<job_cache, held, stored>>

\* lines 482-543
SearchFetches(query, key, page, size, fetch_more, pb, sb) ==
    /\ ~SearchCacheHit(key, page, size, fetch_more)
    /\ SearchFetchesNew(key, page, size, fetch_more)
    /\ \E jobs \in {IF pb = <<>> THEN sb ELSE pb} :
          \E sorted_jobs \in {SearchRanking(jobs, CleanList(Split(query)))} :
             /\ last' = Asking(Obs("search", key, page, FALSE, FALSE, FALSE, TRUE,
                                   pb = <<>>, Len(jobs), sorted_jobs),
                               Len(pb))
             /\ SearchStores(key, page, sorted_jobs)

\* one call of search_jobs
SearchJobs(query, key, page, size, fetch_more, reply) ==
    /\ \/ SearchFromCache(key, page, size, fetch_more)
       \/ SearchNothing(key, page, size, fetch_more)
       \/ SearchFetches(query, key, page, size, fetch_more, reply.primary, reply.secondary)
    /\ UNCHANGED <<rk, pagination_state>>

----------------------------------------------------------------------------
(* clear_cache, lines 424-442 *)

\* the else branch without line 441
ClearJobCacheOnly ==
    /\ job_cache' = EmptyDict
    /\ UNCHANGED pagination_state

\* lines 440-441
ClearEverything ==
    /\ job_cache' = EmptyDict
    /\ pagination_state' = EmptyDict

\* clear_cache() and clear_cache(None)
ClearCacheAll ==
    /\ ClearEverything
    /\ last' = Cleared("clear_all", None,
                       Cardinality((DOMAIN job_cache) \cup (DOMAIN pagination_state)))
    /\ held' = NoHeld
    /\ stored' = {}
    /\ UNCHANGED rk

\* lines 432-438: what clear_cache(cache_key) does to the engine, for a key
ClearKeyCall(key) ==
    /\ IF key \in DOMAIN job_cache
       THEN /\ job_cache' = Del(job_cache, key)
            /\ pagination_state' = Del(pagination_state, key)
       ELSE UNCHANGED <<job_cache, pagination_state>>
    /\ last' = Cleared("clear", key, IF key \in DOMAIN job_cache THEN 1 ELSE 0)
    /\ held' = Detach(held, key)
    /\ stored' = stored \ {key}

\* clear_cache(cache_key) for a key
ClearCacheKey(key) ==
    /\ ClearKeyCall(key)
    /\ UNCHANGED rk

----------------------------------------------------------------------------
(* has_more_jobs, lines 548-561 *)

\* _pagination_state[cache_key].get("has_more", True), or True without a state
HasMore(key) ==
    IF key \in DOMAIN pagination_state THEN pagination_state[key].has_more ELSE TRUE

HasMoreJobs(key) ==
    /\ last' = Answered(key, HasMore(key))
    /\ UNCHANGED <<rk, job_cache, pagination_state, held, stored>>

----------------------------------------------------------------------------
(* The pure ranker under all small inputs *)

Profiles == {<<>>, <<Blank>>, <<"a">>}

\* postings as dicts: usable by content, by title, by description, blank content,
\* title of blanks only, nothing at all, content that is not a str
PostingShapes ==
    { [title |-> <<>>, description |-> <<>>, content |-> <<"a">>],
      [title |-> <<"a">>, description |-> <<>>, content |-> <<>>],
      [title |-> <<>>, description |-> <<"a">>, content |-> <<>>],
      [title |-> <<>>, description |-> <<>>, content |-> <<Blank>>],
      [title |-> <<Blank>>, description |-> <<>>, content |-> <<>>],
      [title |-> <<>>, description |-> <<>>, content |-> <<>>],
      [title |-> <<>>, description |-> <<>>, content |-> NonStr] }

\* posting lists; a posting's id is its place in the list (the fetch order)
JobLists ==
    UNION { { [i \in 1..n |-> [id |-> i, title |-> f[i].title,
                               description |-> f[i].description,
                               content |-> f[i].content]] :
              f \in [1..n -> PostingShapes] } : n \in 0..MaxJobs }

NoLib == [raises |-> TRUE, sims |-> <<>>, rand |-> <<>>]

RkIdle == [phase |-> "off", profile |-> <<>>, jobs |-> <<>>, n |-> 0, lib |-> NoLib,
           path |-> "none", raised |-> FALSE, result |-> <<>>]

\* the class attributes as the class statement leaves them
EngineIdleInit ==
    /\ job_cache = EmptyDict
    /\ pagination_state = EmptyDict
    /\ last = NoCall
    /\ held = NoHeld
    /\ stored = {}

InitRank ==
    /\ \E p \in Profiles, jobs \in JobLists, n \in 0..MaxN :
         \E lib \in LibOutcomes(p, ValidJobs(jobs)) :
            rk = [phase |-> "input", profile |-> p, jobs |-> jobs, n |-> n, lib |-> lib,
                  path |-> "none", raised |-> FALSE, result |-> <<>>]
    /\ EngineIdleInit

\* one call of _match_jobs_to_profile
Rank ==
    /\ rk.phase = "input"
    /\ LET out == MatchJobsToProfile(rk.profile, rk.jobs, rk.n, rk.lib)
       IN  rk' = [rk EXCEPT !.phase = "done",
                            !.path = RankPath(rk.profile, rk.jobs, rk.lib),
                            !.raised = out.raised,
                            !.result = out.value]
    /\ UNCHANGED <<job_cache, pagination_state, last, held, stored>>

NextRank == Rank

SpecRank == InitRank /\ [][NextRank]_vars

----------------------------------------------------------------------------
(* The engine under all sequences of calls *)

Init ==
    /\ rk = RkIdle
    /\ EngineIdleInit

Pages == 1..MaxPage

\* line 31: the default of num_recommendations
NumDefault == 50

\* calls with the cache keys of keys, candidate data of cands, source replies of
\* replies and num_recommendations of nums, in any order
Calls(keys, cands, replies, nums) ==
    \/ \E cand \in cands, key \in keys, force \in BOOLEAN, page \in Pages,
          num \in nums, reply \in replies :
          GetJobRecommendations(cand, key, force, page, num, reply)
    \/ \E query \in Queries, key \in keys, page \in Pages, size \in SearchSizes,
          fetch_more \in BOOLEAN, reply \in replies :
          SearchJobs(query, key, page, size, fetch_more, reply)
    \/ ClearCacheAll
    \/ \E key \in keys : ClearCacheKey(key)
    \/ \E key \in keys : HasMoreJobs(key)

\* one cache key, all candidates and replies
Next == Calls({"k1"}, Candidates, Replies, {NumDefault})

Spec == Init /\ [][Next]_vars

\* two cache keys, candidate data with and without experience, a primary source that
\* returns one posting or none, a secondary source that returns none
KeysCandidates == {cand \in Candidates : cand.skills # <<>>}

KeysReplies ==
    {reply \in Replies : Len(reply.primary) <= 1 /\ reply.secondary = <<>>}

NextKeys == Calls(Keys, KeysCandidates, KeysReplies, {NumDefault})

SpecKeys == Init /\ [][NextKeys]_vars

\* one cache key, callers that ask for one recommendation or for the default
NextCount == Calls({"k1"}, KeysCandidates, Replies, {1, NumDefault})

SpecCount == Init /\ [][NextCount]_vars

----------------------------------------------------------------------------
(* Claims about the ranker, checked under SpecRank *)

\* a posting has a usable content, title or description
Usable(job) ==
    \/ job.content # <<>>
    \/ \E i \in 1..Len(job.title) : job.title[i] # Blank
    \/ \E i \in 1..Len(job.description) : job.description[i] # Blank

NumUsable(jobs) == Cardinality({i \in 1..Len(jobs) : Usable(jobs[i])})

\* the place of posting id among the usable postings of the list
UsableRank(jobs, id) == Cardinality({i \in 1..id : Usable(jobs[i])})

NonIncreasing(r) == \A i \in 1..(Len(r) - 1) : r[i].match_score >= r[i + 1].match_score

TiesInFetchOrder(r) ==
    \A i, j \in 1..Len(r) :
        (i < j /\ r[i].match_score = r[j].match_score) => r[i].id < r[j].id

\* C1: for a non-empty profile, any posting list and any N >= 0 the ranker returns
\* exactly min(N, number of usable postings) postings, in non-increasing order of
\* match_score, postings of equal score in their fetch order.
C1_RankerCountAndOrder ==
    (rk.phase = "done" /\ rk.profile # <<>>) =>
        /\ ~rk.raised
        /\ Len(rk.result) = Min(rk.n, NumUsable(rk.jobs))
        /\ NonIncreasing(rk.result)
        /\ TiesInFetchOrder(rk.result)

\* two usable postings of equal similarity, one requested: the first fetched is kept
C1_Witness ==
    /\ rk.phase = "done" /\ rk.profile # <<>> /\ rk.path = "tfidf"
    /\ NumUsable(rk.jobs) = 2 /\ rk.n = 1
    /\ rk.lib.sims[1] = rk.lib.sims[2] /\ rk.lib.sims[1] > 0
    /\ Len(rk.result) = 1 /\ rk.result[1].id = 1

\* the call reaches the try block and a library call raises in it
RaisedInTry ==
    /\ rk.phase = "done" /\ rk.profile # <<>> /\ NumUsable(rk.jobs) > 0
    /\ \A i \in 1..Len(rk.jobs) : rk.jobs[i].content # NonStr
    /\ rk.lib.raises

\* every returned posting is a usable posting of the input carrying the score the
\* fallback drew for it
FallbackScored(r, jobs, rand) ==
    \A i \in 1..Len(r) :
        /\ r[i].id \in 1..Len(jobs) /\ Usable(jobs[r[i].id])
        /\ r[i].match_score = rand[UsableRank(jobs, r[i].id)]

\* C3: when vectorization or the similarity computation raises, the ranker does
\* not raise: it returns the fallback ranking of the usable postings, cut to N.
C3_ExceptionRoutedToFallback ==
    RaisedInTry =>
        /\ ~rk.raised
        /\ rk.path = "fallback"
        /\ Len(rk.result) = Min(rk.n, NumUsable(rk.jobs))
        /\ FallbackScored(rk.result, rk.jobs, rk.lib.rand)
        /\ NonIncreasing(rk.result)

C3_Witness ==
    /\ RaisedInTry /\ HasTokens(rk.profile)
    /\ NumUsable(rk.jobs) = 2 /\ rk.n = 1 /\ Len(rk.result) = 1
    /\ rk.lib.rand[1] < rk.lib.rand[2] /\ rk.result[1].id = 2

\* C4 (as claimed): an empty or blank profile with at least one usable posting is
\* ranked by the fallback: min(N, usable) postings carrying fallback scores.
C4_BlankProfileUsesFallback ==
    (rk.phase = "done" /\ Strip(rk.profile) = <<>> /\ NumUsable(rk.jobs) > 0) =>
        /\ Len(rk.result) = Min(rk.n, NumUsable(rk.jobs))
        /\ FallbackScored(rk.result, rk.jobs, rk.lib.rand)

\* C5 (as claimed): whenever the fallback ranker runs, every posting it returns
\* has 50 <= match_score <= 70, and the result is in non-increasing score order
\* and holds at most N postings.
C5_FallbackBand ==
    (rk.phase = "done" /\ rk.path = "fallback") =>
        /\ \A i \in 1..Len(rk.result) :
              rk.result[i].match_score >= 500 /\ rk.result[i].match_score <= 700
        /\ NonIncreasing(rk.result)
        /\ Len(rk.result) = Min(rk.n, NumUsable(rk.jobs))

----------------------------------------------------------------------------
(* Claims about the engine, checked under Spec (C10 under SpecKeys) *)

Terms(query) == CleanList(Split(query))

ScoreInRange(r) ==
    \A i \in 1..Len(r) : r[i].match_score >= 0 /\ r[i].match_score <= 1000

\* C2: every posting an engine operation returns or caches, whether scored by
\* TF-IDF, by the fallback or by the search keywords, has 0.0 <= match_score <= 100.0.
C2_ScoreInRange ==
    /\ ScoreInRange(last.result)
    /\ \A k \in DOMAIN job_cache : ScoreInRange(job_cache[k])

\* a search returned a posting whose relevance * 10 is above 100
C2_Witness ==
    /\ last.op = "search" /\ last.primary
    /\ \E i \in 1..Len(last.result), query \in Queries :
          /\ Relevance(last.result[i], Terms(query)) * 100 > 1000
          /\ last.result[i].match_score = 1000

\* the step is a call of get_job_recommendations for page 1 without force_refresh
\* with a key whose entry is as a page 1 fetch stored it
RereadsStored ==
    /\ last'.op = "recs" /\ last'.page = 1 /\ ~last'.force
    /\ last'.key \in stored

\* C6: once a ranked sequence has been stored for key k by a page 1 fetch, a later
\* get_job_recommendations(k, page 1, no force_refresh) returns that sequence
\* and asks neither source; the entry stays as it is.
C6_CacheRoundTrip ==
    [][RereadsStored =>
          /\ last'.served /\ ~last'.raised
          /\ ~last'.primary /\ ~last'.secondary
          /\ last'.result = job_cache[last'.key]
          /\ job_cache' = job_cache]_vars

C6_Witness ==
    /\ last.op = "recs" /\ last.page = 1 /\ ~last.force /\ last.served
    /\ last.key \in stored
    /\ Len(last.result) = 2 /\ last.result = job_cache[last.key]

\* C7: with force_refresh the call is never served from the cache, asks the job
\* source, and leaves as the entry of the key exactly the newly ranked sequence.
C7_ForceRefreshRefetches ==
    (last.op = "recs" /\ last.force) =>
        /\ ~last.served /\ last.primary
        /\ last.key \in DOMAIN job_cache
        /\ job_cache[last.key] = last.result

\* a call that asked the job sources and returned, with a key
FetchedWithKey(obs) ==
    /\ obs.op \in {"recs", "search"} /\ obs.primary /\ ~obs.raised
    /\ IsKey(obs.key)

IdsOf(r) == {r[i].id : i \in 1..Len(r)}

IsPrefix(s, t) == Len(s) <= Len(t) /\ SubSeq(t, 1, Len(s)) = s

C10_ClearAllEmpties ==
    last.op = "clear_all" =>
        /\ job_cache = EmptyDict
        /\ pagination_state = EmptyDict

\* clear_cache() was called when both keys had an entry or a pagination state
C10_Witness ==
    /\ last.op = "clear_all" /\ last.dropped = Cardinality(Keys)
    /\ job_cache = EmptyDict /\ pagination_state = EmptyDict

\* C11: after clear_cache(k) the key k is neither in the result cache nor in the
\* pagination state, also when k had a pagination state and no cached sequence.
C11_ClearKeyRemovesKey ==
    last.op = "clear" =>
        /\ last.key \notin DOMAIN job_cache
        /\ last.key \notin DOMAIN pagination_state

C14_SecondaryIffPrimaryEmpty ==
    (last.op \in {"recs", "search"} /\ last.primary) =>
        /\ last.secondary <=> last.primary_count = 0
        /\ (last.primary_count = 0 /\ last.fetched = 0) =>
              ~last.raised /\ last.result = <<>>

\* a get_job_recommendations call with a key that asked the primary source
RecsFetchedWithKey(obs) == obs.op = "recs" /\ obs.primary /\ IsKey(obs.key)

\* C18 as stated: after a fetching get_job_recommendations call the has_more flag
\* of its key is true if and only if the fetch returned at least as many postings
\* as the page limit.
C18_HasMoreIffFullPage ==
    (RecsFetchedWithKey(last) /\ ~last.raised) =>
        (pagination_state[last.key].has_more <=> last.fetched >= JobsPerPage)

\* C18: after a fetching get_job_recommendations call that returns, the has_more
\* flag of its key is true if and only if the fetch returned at least one
\* posting; a call that raises after it fetched leaves the pagination state of
\* its key as reset for page 1 or force_refresh, and else as it was.
C18_HasMoreIffAnyFetched ==
    [][RecsFetchedWithKey(last') =>
          LET k == last'.key
          IN  IF ~last'.raised
              THEN pagination_state'[k].has_more <=> last'.fetched > 0
              ELSE IF last'.page = 1 \/ last'.force
                   THEN pagination_state'[k] = [current_page |-> 1, has_more |-> TRUE]
                   ELSE pagination_state' = pagination_state]_vars

\* a fetch returned fewer postings than the page limit, and has_more is set
C18_Witness ==
    /\ RecsFetchedWithKey(last) /\ ~last.raised
    /\ last.fetched > 0 /\ last.fetched < JobsPerPage
    /\ pagination_state[last.key].has_more

\* C19: has_more_jobs(k) returns False for a key without pagination state and the
\* stored has_more flag for a key with one.
C19_HasMoreJobsDefaultsFalse ==
    last.op = "has_more" =>
        last.answer = (IF last.key \in DOMAIN pagination_state
                       THEN pagination_state[last.key].has_more ELSE FALSE)

\* C20: get_job_recommendations returns at most num_recommendations postings.
C20_AtMostNumRecommendations ==
    (last.op = "recs" /\ ~last.raised) => Len(last.result) <= last.num

----------------------------------------------------------------------------
(* The job sources: JobAPIService.fetch_jobs and _fetch_jobs_from_jooble *)

\* longest 'jobs' list of an upstream payload
MaxItems == 2

\* the defaults of job_api_service.py lines 89-92
UnknownPosition ==
    <<"U", "n", "k", "n", "o", "w", "n", " ", "P", "o", "s", "i", "t", "i",
      "o", "n">>

NoDescription ==
    <<"N", "o", " ", "d", "e", "s", "c", "r", "i", "p", "t", "i", "o", "n",
      " ", "a", "v", "a", "i", "l", "a", "b", "l", "e">>

UnknownCompany ==
    <<"U", "n", "k", "n", "o", "w", "n", " ", "C", "o", "m", "p", "a", "n",
      "y">>

\* An item of the upstream 'jobs' list: an object (dict) with an id and, when
\* has_title, a title; or something that is not an object.
ItemShapes ==
    { [isdict |-> TRUE, has_title |-> TRUE, title |-> <<"A">>],
      [isdict |-> TRUE, has_title |-> FALSE, title |-> <<>>],
      [isdict |-> FALSE, has_title |-> FALSE, title |-> <<>>] }

\* 'jobs' lists; an item's id is its place in the list
ItemLists ==
    UNION { { [i \in 1..n |-> [id |-> i, isdict |-> f[i].isdict,
                               has_title |-> f[i].has_title, title |-> f[i].title]] :
              f \in [1..n -> ItemShapes] } : n \in 0..MaxItems }

\* What response.json() gives: it raises (the body is no JSON), or it returns a
\* value that is no object, or an object whose 'jobs' is missing, null, a
\* non-empty string, a non-empty object or a list.
Payloads ==
    {[kind |-> k, jobs |-> "missing", items |-> <<>>] : k \in {"notjson", "nondict"}}
        \cup {[kind |-> "dict", jobs |-> j, items |-> <<>>] :
                 j \in {"missing", "null", "str", "dict"}}
        \cup {[kind |-> "dict", jobs |-> "list", items |-> items] : items \in ItemLists}

NoPayload == [kind |-> "notjson", jobs |-> "missing", items |-> <<>>]

\* What requests.post does: it raises requests.exceptions.Timeout, another
\* RequestException (no connection) or another exception, or it returns a
\* response with a status code and a body.
Upstreams ==
    {[exc |-> e, status |-> 0, payload |-> NoPayload] :
        e \in {"Timeout", "RequestException", "Exception"}}
        \cup {[exc |-> "none", status |-> 500, payload |-> NoPayload]}
        \cup {[exc |-> "none", status |-> 200, payload |-> p] : p \in Payloads}

\* the outcome of a block of code: the exception that leaves it ("none" if it
\* completes) and the value it returns
Returns(value) == [exc |-> "none", value |-> value]

Raises(exc) == [exc |-> exc, value |-> <<>>]

\* job_api_service.py lines 85-104: the posting made of an upstream object
PrimaryPosting(item) ==
    LET title == IF item.has_title THEN item.title ELSE UnknownPosition
    IN  [id |-> item.id, title |-> title, description |-> NoDescription,
         content |-> Lower(title \o <<Blank>> \o NoDescription \o <<Blank>> \o UnknownCompany)]

\* job_api_service.py lines 72-110
ProcessJoobleResponse(payload) ==
    IF payload.kind # "dict" THEN <<>>
    ELSE IF payload.jobs # "list" THEN <<>>
    ELSE LET kept == SelectSeq(payload.items, LAMBDA item : item.isdict)
         IN  [i \in 1..Len(kept) |-> PrimaryPosting(kept[i])]

\* job_api_service.py lines 34-60: the try block of fetch_jobs
FetchJobsTry(up) ==
    IF up.exc # "none" THEN Raises(up.exc)
    ELSE IF up.status # 200 THEN Returns(<<>>)
    ELSE IF up.payload.kind = "notjson" THEN Raises("Exception")
    ELSE Returns(ProcessJoobleResponse(up.payload))

\* the same with only the two except clauses for requests' exceptions
FetchJobsNoCatchAll(has_key, up) ==
    IF ~has_key THEN Returns(<<>>)
    ELSE LET out == FetchJobsTry(up)
         IN  IF out.exc \in {"Timeout", "RequestException"} THEN Returns(<<>>) ELSE out

\* job_api_service.py lines 12-69; has_key: settings has a JOOBLE_API_KEY
FetchJobs(has_key, up) ==
    IF ~has_key THEN Returns(<<>>)
    ELSE LET out == FetchJobsTry(up)
         IN  IF out.exc # "none" THEN Returns(<<>>) ELSE out

\* recommendation_engine.py lines 401-416: the posting made of an upstream object
SecondaryPosting(item) ==
    [id |-> item.id, title |-> item.title, description |-> <<>>,
     content |-> item.title \o <<Blank, Blank>>]

\* lines 365-418: the try block of _fetch_jobs_from_jooble.  response_data.get
\* raises on a value that is no object, the for loop raises on null, and job.get
\* raises on the first item (character, key or list item) that is no object.
FetchJobsFromJoobleTry(up) ==
    LET p == up.payload
    IN  IF up.exc # "none" THEN Raises(up.exc)
        ELSE IF up.status # 200 THEN Returns(<<>>)
        ELSE IF p.kind # "dict" THEN Raises("Exception")
        ELSE IF p.jobs = "missing" THEN Returns(<<>>)
        ELSE IF p.jobs # "list" THEN Raises("Exception")
        ELSE IF \E i \in 1..Len(p.items) : ~p.items[i].isdict THEN Raises("Exception")
        ELSE Returns([i \in 1..Len(p.items) |-> SecondaryPosting(p.items[i])])

\* lines 346-422
FetchJobsFromJooble(up) ==
    LET out == FetchJobsFromJoobleTry(up)
    IN  IF out.exc # "none" THEN Returns(<<>>) ELSE out

InitFetch ==
    /\ \E source \in {"primary", "secondary"}, has_key \in BOOLEAN, up \in Upstreams :
          rk = [phase |-> "input", source |-> source, has_key |-> has_key, up |-> up,
                out |-> Returns(<<>>)]
    /\ EngineIdleInit

\* one call of JobAPIService.fetch_jobs
FetchPrimary ==
    /\ rk.phase = "input" /\ rk.source = "primary"
    /\ rk' = [rk EXCEPT !.phase = "done", !.out = FetchJobs(rk.has_key, rk.up)]
    /\ UNCHANGED <<job_cache, pagination_state, last, held, stored>>

\* one call of _fetch_jobs_from_jooble
FetchSecondary ==
    /\ rk.phase = "input" /\ rk.source = "secondary"
    /\ rk' = [rk EXCEPT !.phase = "done", !.out = FetchJobsFromJooble(rk.up)]
    /\ UNCHANGED <<job_cache, pagination_state, last, held, stored>>

NextFetch == FetchPrimary \/ FetchSecondary

SpecFetch == InitFetch /\ [][NextFetch]_vars

\* the call was made: the engine's own key is always set, the service's has to be
Asked == rk.phase = "done" /\ (rk.source = "primary" => rk.has_key)

\* the upstream is unavailable or its payload is malformed
Unavailable(up) ==
    \/ up.exc # "none"
    \/ up.status # 200
    \/ up.payload.kind # "dict"
    \/ up.payload.jobs # "list"

\* C13: for both sources a timeout, a network failure, a non-200 response or a
\* malformed payload gives the empty list and never an exception.
C13_UnavailabilityAbsorbed ==
    rk.phase = "done" =>
        /\ rk.out.exc = "none"
        /\ Unavailable(rk.up) => rk.out.value = <<>>

\* the secondary source got a payload that is no object
C13_Witness ==
    /\ Asked /\ rk.source = "secondary"
    /\ rk.up.exc = "none" /\ rk.up.status = 200 /\ rk.up.payload.kind = "nondict"
    /\ rk.out = Returns(<<>>)

WellFormedIds(items) ==
    LET kept == SelectSeq(items, LAMBDA item : item.isdict)
    IN  [i \in 1..Len(kept) |-> kept[i].id]

\* C15: for both sources, from a 'jobs' list that mixes items that are no objects
\* with well-formed records exactly the well-formed records come out, in order;
\* from a 'jobs' that is no list nothing comes out.
C15_MalformedSkippedOneByOne ==
    (Asked /\ rk.up.exc = "none" /\ rk.up.status = 200 /\ rk.up.payload.kind = "dict") =>
        /\ rk.out.exc = "none"
        /\ [i \in 1..Len(rk.out.value) |-> rk.out.value[i].id] =
              (IF rk.up.payload.jobs = "list" THEN WellFormedIds(rk.up.payload.items)
               ELSE <<>>)

----------------------------------------------------------------------------
(* The search keywords of get_job_recommendations *)

\* longest skills, experience or education list
MaxEntries == 2

\* entries of a candidate's lists: empty, blank, one word, a word after a blank,
\* two words
Entries == {<<>>, <<Blank>>, <<"a">>, <<Blank, "b">>, <<"a", Blank, "b">>}

EntryLists == UNION {[1..n -> Entries] : n \in 0..MaxEntries}

\* str.split(" "): cut at every blank, empty pieces kept
RECURSIVE SplitAt(_, _)
SplitAt(s, piece) ==
    IF s = <<>> THEN <<piece>>
    ELSE IF Head(s) = Blank THEN <<piece>> \o SplitAt(Tail(s), <<>>)
    ELSE SplitAt(Tail(s), Append(piece, Head(s)))

\* lines 79-80
GenericKeywords == <<<<"e", "n", "t", "r", "y">>, <<"l", "e", "v", "e", "l">>,
      <<"j", "o", "b">>>>

\* lines 71-80: the keywords when there are no skills and no experience
RECURSIVE EducationWords(_)
EducationWords(education) ==
    IF education = <<>> THEN <<>>
    ELSE LET edu == Head(education)
             edu_parts == Split(Strip(edu))
         IN  (IF Truthy(edu) /\ Len(Strip(edu)) > 0 /\ Len(edu_parts) > 1
              THEN <<edu_parts[1]>> ELSE <<>>)
             \o EducationWords(Tail(education))

FallbackKeywords(education) ==
    IF EducationWords(education) = <<>> THEN GenericKeywords
    ELSE EducationWords(education)

\* lines 172-179: " ".join(exp.split(" ")[:3]) of every experience entry that is
\* not blank
JobTitles(experience) ==
    LET kept == SelectSeq(experience, LAMBDA exp : Truthy(exp) /\ Truthy(Strip(exp)))
    IN  [i \in 1..Len(kept) |-> Join(Take(SplitAt(kept[i], <<>>), 3), <<Blank>>)]

\* lines 182-190
KeywordList(skills, experience) ==
    Take(JobTitles(experience), 1) \o Take(CleanList(skills), 3)

\* the orders in which a set can be listed
Listings(S) ==
    {f \in [1..Cardinality(S) -> S] : \A i, j \in 1..Cardinality(S) : f[i] = f[j] => i = j}

\* lines 158-193: list(set(keywords))[:5]; a set of strs is listed in an order
\* that the hash seed of the process decides
ExtractSearchKeywords(skills, experience) ==
    LET keywords == KeywordList(skills, experience)
    IN  {Take(l, 5) : l \in Listings({keywords[i] : i \in 1..Len(keywords)})}

InitKeywords ==
    /\ \/ \E education \in EntryLists :
             rk = [phase |-> "input", fn |-> "education", skills |-> <<>>,
                   experience |-> <<>>, education |-> education, result |-> <<>>]
       \/ \E skills \in EntryLists, experience \in EntryLists :
             rk = [phase |-> "input", fn |-> "extract", skills |-> skills,
                   experience |-> experience, education |-> <<>>, result |-> <<>>]
    /\ EngineIdleInit

\* lines 69-80 of a call with no skills and no experience
EducationFallback ==
    /\ rk.phase = "input" /\ rk.fn = "education"
    /\ rk' = [rk EXCEPT !.phase = "done", !.result = FallbackKeywords(rk.education)]
    /\ UNCHANGED <<job_cache, pagination_state, last, held, stored>>

\* one call of _extract_search_keywords
ExtractKeywords ==
    /\ rk.phase = "input" /\ rk.fn = "extract"
    /\ \E result \in ExtractSearchKeywords(rk.skills, rk.experience) :
          rk' = [rk EXCEPT !.phase = "done", !.result = result]
    /\ UNCHANGED <<job_cache, pagination_state, last, held, stored>>

NextKeywords == EducationFallback \/ ExtractKeywords

SpecKeywords == InitKeywords /\ [][NextKeywords]_vars

\* the first word of every entry that is not blank
RECURSIVE FirstWords(_)
FirstWords(entries) ==
    IF entries = <<>> THEN <<>>
    ELSE (IF Split(Head(entries)) = <<>> THEN <<>> ELSE <<Split(Head(entries))[1]>>)
         \o FirstWords(Tail(entries))

\* C16: with no skills and no experience the keywords are the first word of each
\* non-empty education entry, single-word entries included, and
\* ["entry", "level", "job"] when there is none.
C16_EducationKeywords ==
    (rk.phase = "done" /\ rk.fn = "education") =>
        rk.result = (IF FirstWords(rk.education) = <<>> THEN GenericKeywords
                     ELSE FirstWords(rk.education))

\* a list without its repetitions, first occurrences kept in order
RECURSIVE Dedupe(_, _)
Dedupe(s, seen) ==
    IF s = <<>> THEN <<>>
    ELSE IF Head(s) \in seen THEN Dedupe(Tail(s), seen)
    ELSE <<Head(s)>> \o Dedupe(Tail(s), seen \cup {Head(s)})

\* at most the first three words of the first experience entry that is not blank
TitleKeyword(experience) ==
    LET kept == CleanList(experience)
    IN  IF kept = <<>> THEN <<>> ELSE <<Join(Take(Split(kept[1]), 3), <<Blank>>)>>

\* C17: _extract_search_keywords returns at most 5 keywords without duplicates in
\* first-occurrence order: the title keyword, then up to the first 3 non-empty
\* trimmed skills in input order.
C17_KeywordsInOrder ==
    (rk.phase = "done" /\ rk.fn = "extract") =>
        /\ Len(rk.result) <= 5
        /\ rk.result = Dedupe(TitleKeyword(rk.experience) \o Take(CleanList(rk.skills), 3), {})

----------------------------------------------------------------------------
(* get_job_stats, lines 563-660: the employment types *)

\* longest posting list _fetch_jobs_from_jooble gives to get_job_stats
MaxStatJobs == 2

\* lines 644-650, in the order the dict is iterated
JobTypeKeywords ==
    << [job_type |-> "Full-time",
        keywords |-> <<<<"f", "u", "l", "l", " ", "t", "i", "m", "e">>,
                      <<"f", "u", "l", "l", "-", "t", "i", "m", "e">>,
                      <<"p", "e", "r", "m", "a", "n", "e", "n", "t">>>>],
       [job_type |-> "Part-time",
        keywords |-> <<<<"p", "a", "r", "t", " ", "t", "i", "m", "e">>,
                      <<"p", "a", "r", "t", "-", "t", "i", "m", "e">>>>],
       [job_type |-> "Contract",
        keywords |-> <<<<"c", "o", "n", "t", "r", "a", "c", "t">>,
                      <<"t", "e", "m", "p", "o", "r", "a", "r", "y">>,
                      <<"c", "o", "n", "t", "r", "a", "c", "t", "o", "r">>>>],
       [job_type |-> "Freelance",
        keywords |-> <<<<"f", "r", "e", "e", "l", "a", "n", "c", "e">>,
                      <<"f", "r", "e", "e", "l", "a", "n", "c", "e", "r">>>>],
       [job_type |-> "Internship",
        keywords |-> <<<<"i", "n", "t", "e", "r", "n">>,
                      <<"i", "n", "t", "e", "r", "n", "s", "h", "i", "p">>>>] >>

\* line 653: (title + ' ' + description).lower()
StatContent(job) == Lower(job.title \o <<Blank>> \o job.description)

\* lines 655-658: the keywords of the group are tried in turn; the first one found
\* in the content counts the posting for the group and ends the loop over the
\* keywords of this group
CountedFor(job, group) ==
    \E i \in 1..Len(group.keywords) : IsSubstring(group.keywords[i], StatContent(job))

\* lines 652-658: stats["job_types"], a dict from the job types that counted a
\* posting to the number of postings they counted
JobTypes(jobs) ==
    LET count == [g \in 1..Len(JobTypeKeywords) |->
                     Cardinality({i \in 1..Len(jobs) : CountedFor(jobs[i], JobTypeKeywords[g])})]
        counted == {g \in 1..Len(JobTypeKeywords) : count[g] > 0}
    IN  [job_type \in {JobTypeKeywords[g].job_type : g \in counted} |->
            count[CHOOSE g \in counted : JobTypeKeywords[g].job_type = job_type]]

\* lines 586-660 as far as the employment types go; jobs is what
\* _fetch_jobs_from_jooble returned
GetJobStatsOf(jobs) ==
    [total_matching_jobs |-> Len(jobs),
     job_types |-> IF jobs # <<>> THEN JobTypes(jobs) ELSE [job_type \in {} |-> 0]]

\* titles of the postings the source returns; a posting's snippet is empty or
\* "permanent"
StatTitles ==
    { <<>>,
      <<"I", "n", "t", "e", "r", "n">>,
      <<"I", "n", "t", "e", "r", "n", "s", "h", "i", "p">>,
      <<"C", "o", "n", "t", "r", "a", "c", "t", "o", "r">>,
      <<"C", "o", "n", "t", "r", "a", "c", "t", " ", "I", "n", "t", "e", "r", "n">> }

StatJobLists ==
    UNION { { [i \in 1..n |-> [id |-> i, title |-> f[i][1], description |-> f[i][2]]] :
              f \in [1..n -> StatTitles \X
                                 { <<>>, <<"p", "e", "r", "m", "a", "n", "e", "n", "t">> }] } :
            n \in 0..MaxStatJobs }

InitStats ==
    /\ \E jobs \in StatJobLists :
          rk = [phase |-> "input", jobs |-> jobs, stats |-> GetJobStatsOf(<<>>)]
    /\ EngineIdleInit

\* one call of get_job_stats
GetJobStats ==
    /\ rk.phase = "input"
    /\ rk' = [rk EXCEPT !.phase = "done", !.stats = GetJobStatsOf(rk.jobs)]
    /\ UNCHANGED <<job_cache, pagination_state, last, held, stored>>

NextStats == GetJobStats

SpecStats == InitStats /\ [][NextStats]_vars

\* the sum of the counts of a dict
RECURSIVE SumCounts(_)
SumCounts(d) ==
    IF DOMAIN d = {} THEN 0
    ELSE LET t == CHOOSE x \in DOMAIN d : TRUE
         IN  d[t] + SumCounts([x \in (DOMAIN d) \ {t} |-> d[x]])

\* the first group, in the order of the dict, that has a keyword in the posting
FirstGroup(job) ==
    LET found == {g \in 1..Len(JobTypeKeywords) : CountedFor(job, JobTypeKeywords[g])}
    IN  IF found = {} THEN 0 ELSE CHOOSE g \in found : \A h \in found : g <= h

\* C21: in get_job_stats a posting is counted for its first matching employment
\* type only, so the counts of job_types add up to at most the number of postings.
C21_OneGroupPerPosting ==
    rk.phase = "done" =>
        /\ SumCounts(rk.stats.job_types) <= Len(rk.jobs)
        /\ \A g \in 1..Len(JobTypeKeywords) :
              LET job_type == JobTypeKeywords[g].job_type
                  n == Cardinality({i \in 1..Len(rk.jobs) : FirstGroup(rk.jobs[i]) = g})
              IN  IF n = 0 THEN job_type \notin DOMAIN rk.stats.job_types
                  ELSE job_type \in DOMAIN rk.stats.job_types
                       /\ rk.stats.job_types[job_type] = n

----------------------------------------------------------------------------
(* The job sources while they wait for the upstream server *)

\* job_api_service.py line 52: the primary source gives requests.post a timeout;
\* recommendation_engine.py lines 381-385: the secondary source gives it none
HasTimeout(source) == source = "primary"

\* the server never answers
Silent == [exc |-> "silent", status |-> 0, payload |-> NoPayload]

InitWait ==
    /\ \E source \in {"primary", "secondary"}, has_key \in BOOLEAN,
          up \in Upstreams \cup {Silent} :
          rk = [phase |-> "input", source |-> source, has_key |-> has_key, up |-> up,
                out |-> Returns(<<>>)]
    /\ EngineIdleInit

\* the call up to requests.post: job_api_service.py lines 18-53 (without an API
\* key it returns at line 32), recommendation_engine.py lines 364-385
SendRequest ==
    /\ rk.phase = "input"
    /\ rk' = IF rk.source = "primary" /\ ~rk.has_key
             THEN [rk EXCEPT !.phase = "done", !.out = FetchJobs(FALSE, rk.up)]
             ELSE [rk EXCEPT !.phase = "waiting"]
    /\ UNCHANGED <<job_cache, pagination_state, last, held, stored>>

\* requests.post returns or raises, and the call runs to its end
ReceiveResponse ==
    /\ rk.phase = "waiting" /\ rk.up # Silent
    /\ rk' = [rk EXCEPT !.phase = "done",
                        !.out = IF rk.source = "primary" THEN FetchJobs(TRUE, rk.up)
                                ELSE FetchJobsFromJooble(rk.up)]
    /\ UNCHANGED <<job_cache, pagination_state, last, held, stored>>

\* no answer within the timeout: requests.post raises Timeout, if it was given one
RequestTimesOut ==
    /\ rk.phase = "waiting" /\ rk.up = Silent /\ HasTimeout(rk.source)
    /\ rk' = [rk EXCEPT !.phase = "done",
                        !.out = FetchJobs(TRUE, [exc |-> "Timeout", status |-> 0,
                                                 payload |-> NoPayload])]
    /\ UNCHANGED <<job_cache, pagination_state, last, held, stored>>

NextWait == SendRequest \/ ReceiveResponse \/ RequestTimesOut

\* the process runs and the timer of requests fires: a step that can be taken is
\* taken
SpecWait == InitWait /\ [][NextWait]_vars /\ WF_vars(NextWait)

\* C22: every call of a job source, primary or secondary, returns even if the
\* upstream server never answers.
C22_EveryCallReturns == <>(rk.phase = "done")

----------------------------------------------------------------------------
(* _create_user_profile under all small lists *)

InitProfile ==
    /\ \E skills \in EntryLists,
          experience \in {entries \in EntryLists : Len(entries) <= 1},
          education \in {entries \in EntryLists : Len(entries) <= 1} :
          rk = [phase |-> "input", fn |-> "profile", skills |-> skills,
                experience |-> experience, education |-> education, result |-> <<>>]
    /\ EngineIdleInit

\* one call of _create_user_profile
BuildProfile ==
    /\ rk.phase = "input" /\ rk.fn = "profile"
    /\ rk' = [rk EXCEPT !.phase = "done",
                        !.result = CreateUserProfile(rk.skills, rk.experience, rk.education)]
    /\ UNCHANGED <<job_cache, pagination_state, last, held, stored>>

NextProfile == BuildProfile

SpecProfile == InitProfile /\ [][NextProfile]_vars

\* an entry from its first to its last character that is not a blank
Trim(entry) ==
    LET solid == {i \in 1..Len(entry) : entry[i] # Blank}
    IN  IF solid = {} THEN <<>>
        ELSE SubSeq(entry, CHOOSE i \in solid : \A j \in solid : i <= j,
                           CHOOSE i \in solid : \A j \in solid : i >= j)

\* the trimmed entries that are not empty, in input order
Trimmed(entries) ==
    SelectSeq([i \in 1..Len(entries) |-> Trim(entries[i])], LAMBDA entry : entry # <<>>)

\* every entry three times
Thrice(entries) == [i \in 1..(3 * Len(entries)) |-> entries[(i + 2) \div 3]]

\* the parts with one blank between neighbours
RECURSIVE Spaced(_)
Spaced(parts) ==
    IF parts = <<>> THEN <<>>
    ELSE LET front == Spaced(SubSeq(parts, 1, Len(parts) - 1))
         IN  (IF front = <<>> /\ Len(parts) = 1 THEN <<>> ELSE front \o <<Blank>>)
             \o parts[Len(parts)]

\* C23: _create_user_profile returns, joined by single blanks, every non-empty
\* trimmed skill 3 times in input order, then every non-empty trimmed experience
\* entry once, then every non-empty trimmed education entry once; the empty
\* string when there is no such entry.
C23_ProfileIsWeightedJoin ==
    (rk.phase = "done" /\ rk.fn = "profile") =>
        LET parts == Thrice(Trimmed(rk.skills)) \o Trimmed(rk.experience)
                        \o Trimmed(rk.education)
        IN  /\ rk.result = Spaced(parts)
            /\ parts = <<>> => rk.result = <<>>

\* a skill that had to be trimmed, an experience entry of two words and an
\* education entry: "b b b a b a"
C23_Witness ==
    /\ rk.phase = "done" /\ rk.fn = "profile"
    /\ rk.skills = << <<Blank, "b">> >>
    /\ rk.experience = << <<"a", Blank, "b">> >>
    /\ rk.education = << <<"a">> >>
    /\ rk.result = <<"b", Blank, "b", Blank, "b", Blank, "a", Blank, "b", Blank, "a">>

----------------------------------------------------------------------------
(* paginate, app/api/pagination.py lines 32-70 *)

\* longest item list given to paginate; the requested page goes up to one more
MaxTotal == 4

\* the same without the clamp of lines 51-54
PaginateUnclamped(items, page_params) ==
    LET total_items == Len(items)
        size == Max(1, page_params.size)
        total_pages == IF total_items = 0 THEN 0 ELSE (total_items + size - 1) \div size
        page == Max(1, page_params.page)
        start_idx == (page - 1) * size
        end_idx == Min(start_idx + size, total_items)
    IN  [items |-> IF total_items > 0 /\ start_idx < total_items
                   THEN SubSeq(items, start_idx + 1, end_idx) ELSE <<>>,
         total |-> total_items, page |-> page, size |-> size, pages |-> total_pages,
         has_next |-> page < total_pages, has_prev |-> page > 1 /\ total_pages > 0]

\* lines 36-70; page_params is an object with the attributes page and size
Paginate(items, page_params) ==
    LET total_items == Len(items)
        size == Max(1, page_params.size)
        total_pages == IF total_items = 0 THEN 0 ELSE (total_items + size - 1) \div size
        current_page_requested == Max(1, page_params.page)
        page == IF total_pages = 0 THEN 1 ELSE Min(current_page_requested, total_pages)
        start_idx == (page - 1) * size
        end_idx == Min(start_idx + size, total_items)
    IN  [items |-> IF total_items > 0 /\ start_idx < total_items
                   THEN SubSeq(items, start_idx + 1, end_idx) ELSE <<>>,
         total |-> total_items, page |-> page, size |-> size, pages |-> total_pages,
         has_next |-> page < total_pages, has_prev |-> page > 1 /\ total_pages > 0]

NoPage == Paginate(<<>>, [page |-> 1, size |-> 1])

\* item lists: the i-th item is i
ItemSeqs == {[i \in 1..n |-> i] : n \in 0..MaxTotal}

InitPaginate ==
    /\ \E items \in ItemSeqs, page \in (-1)..(MaxTotal + 1), size \in (-1)..MaxTotal :
          rk = [phase |-> "input", items |-> items,
                page_params |-> [page |-> page, size |-> size], out |-> NoPage]
    /\ EngineIdleInit

\* one call of paginate
CallPaginate ==
    /\ rk.phase = "input"
    /\ rk' = [rk EXCEPT !.phase = "done", !.out = Paginate(rk.items, rk.page_params)]
    /\ UNCHANGED <<job_cache, pagination_state, last, held, stored>>

NextPaginate == CallPaginate

SpecPaginate == InitPaginate /\ [][NextPaginate]_vars

\* ceil(total / size) for size >= 1: the least number of pages of that size that
\* hold total items
CeilDiv(total, size) == CHOOSE p \in 0..total : p * size >= total /\ (p - 1) * size < total

\* C24: paginate uses size' = max(1, size) and pages = ceil(total / size'), clamps
\* the page into [1, max(1, pages)], returns exactly the items at positions
\* (page-1)*size' up to min(page*size', total), and sets has_next iff page < pages
\* and has_prev iff page > 1.
C24_PaginateWindow ==
    rk.phase = "done" =>
        LET out == rk.out
            total == Len(rk.items)
            size1 == IF rk.page_params.size >= 1 THEN rk.page_params.size ELSE 1
            pages == CeilDiv(total, size1)
            top == IF pages >= 1 THEN pages ELSE 1
            page == IF rk.page_params.page < 1 THEN 1
                    ELSE IF rk.page_params.page > top THEN top
                    ELSE rk.page_params.page
            from == (page - 1) * size1
            to == IF page * size1 <= total THEN page * size1 ELSE total
        IN  /\ out.size = size1 /\ out.pages = pages /\ out.page = page
            /\ out.total = total
            /\ Len(out.items) = (IF to >= from THEN to - from ELSE 0)
            /\ \A i \in 1..Len(out.items) : out.items[i] = rk.items[from + i]
            /\ out.has_next <=> page < pages
            /\ out.has_prev <=> page > 1

\* a size below 1 and a page beyond the last: size 1, the last page, its one item
C24_Witness ==
    /\ rk.phase = "done"
    /\ rk.page_params.size < 1 /\ Len(rk.items) > 1
    /\ rk.page_params.page > Len(rk.items)
    /\ rk.out.size = 1 /\ rk.out.page = Len(rk.items)
    /\ rk.out.items = <<rk.items[Len(rk.items)]>>
    /\ rk.out.has_prev /\ ~rk.out.has_next

----------------------------------------------------------------------------
(* Claims about the order and the pages of a cache entry, checked under Spec *)

KeptFront(obs, cache) ==
    IF \/ obs.page = 1
       \/ obs.op = "recs" /\ obs.force
       \/ obs.key \notin DOMAIN cache
    THEN <<>>
    ELSE cache[obs.key]

----------------------------------------------------------------------------
(* get_job_recommendations under all sequences of page requests for one key, *)
(* with a record of what each page's last fetch ranked                       *)

InitPages ==
    /\ rk = [phase |-> "pages",
             ranked |-> [p \in Pages |-> [fetched |-> FALSE, jobs |-> <<>>]]]
    /\ EngineIdleInit

\* one call of get_job_recommendations; rk.ranked[page] is the sequence ranked by
\* the last call that fetched this page from the job sources and returned
RequestPage(cand, key, force, page, num, reply) ==
    /\ RecsCall(cand, key, force, page, num, reply)
    /\ rk' = IF last'.primary /\ ~last'.raised
             THEN [rk EXCEPT !.ranked[page] = [fetched |-> TRUE, jobs |-> last'.result]]
             ELSE rk

NextPages ==
    \E cand \in KeysCandidates, force \in BOOLEAN, page \in Pages, reply \in Replies :
        RequestPage(cand, "k1", force, page, NumDefault, reply)

SpecPages == InitPages /\ [][NextPages]_vars

\* C26: when get_job_recommendations serves page p from the cache, it returns
\* exactly the postings that were ranked when page p was last fetched.
C26_CachedPageIsFetchedPage ==
    (last.op = "recs" /\ last.served /\ rk.ranked[last.page].fetched) =>
        last.result = rk.ranked[last.page].jobs

----------------------------------------------------------------------------
(* Claims about what a call leaves untouched, checked under SpecKeys *)

\* C27: a get_job_recommendations call that is served from the cache leaves the
\* cached sequence and the pagination state of every key as they were, for every
\* requested page, page 1 included.
C27_CacheHitReadOnly ==
    [][(last'.op = "recs" /\ last'.served) =>
          /\ job_cache' = job_cache
          /\ pagination_state' = pagination_state]_vars

----------------------------------------------------------------------------
(* Claims about the ids of a cache entry, checked under Spec *)

NoRepeatedId(r) == \A i, j \in 1..Len(r) : r[i].id = r[j].id => i = j

\* the call fetched a later page for a key that has an entry and appended to it
Appended(obs, cache) ==
    /\ FetchedWithKey(obs) /\ obs.page > 1
    /\ ~(obs.op = "recs" /\ obs.force)
    /\ obs.key \in DOMAIN cache

\* C28: a call that appends a later page to a cache entry without two postings of
\* the same id leaves an entry without two postings of the same id, whatever the
\* job source returned, a batch that repeats an id included.
C28_AppendKeepsIdsUnique ==
    [][(Appended(last', job_cache) /\ NoRepeatedId(job_cache[last'.key])) =>
          NoRepeatedId(job_cache'[last'.key])]_vars

----------------------------------------------------------------------------
(* The routes of app/api/routes.py that use the cache of one resume, id 1 *)

\* app/config/settings.py line 31
DefaultRecommendationsCount == 10

\* app/config/settings.py line 32
DefaultJobLocation == "Remote"

\* app/config/settings.py line 35
PageSize == 10

\* a or b, for two values that are a str or None
Or(a, b) == IF a \in {None, ""} THEN b ELSE a

\* routes.py lines 79, 125 and 227: f"resume_{resume_id}_{location or 'default'}"
RecCacheKey(location) ==
    CASE Or(location, "default") = "default" -> "resume_1_default"
      [] location = "Remote" -> "resume_1_Remote"
      [] location = "Colombo" -> "resume_1_Colombo"

\* pagination.py lines 12-21
PageParams(page, size) == [page |-> page, size |-> IF size >= 1 THEN size ELSE PageSize]

\* the candidate data a route gives the engine: lists, never None
RouteCandidates == {cand \in Candidates : cand.exp_given /\ cand.skills # <<>>}

\* the primary source returns no posting or two; the secondary source none
RouteReplies ==
    {[primary |-> Batch(ids), secondary |-> <<>>] : ids \in {<<>>, <<1, 2>>}}

\* the location field of the upload form; DEFAULT_JOB_LOCATION when it is left out
FormLocations == {DefaultJobLocation, "Colombo"}

\* the location parameter of /recommendations; None when it is left out
QueryLocations == {None, "Colombo"}

\* the size parameter of /recommendations
QuerySizes == {1, DefaultRecommendationsCount}

\* the row of the resume in the database
NoResume ==
    [exists |-> FALSE, deleted |-> FALSE, cv_url |-> FALSE, location |-> None,
     cand |-> CHOOSE cand \in RouteCandidates : TRUE]

\* the response of a route: its status code, the request's page and size, what
\* the engine returned and the page made of it
Response(route, status, page, size, engine, body) ==
    [route |-> route, status |-> status, page |-> page, size |-> size,
     engine |-> engine, body |-> body]

Status(route, status) == Response(route, status, 0, 0, <<>>, NoPage)

\* a database that has no resume yet, or has one that was stored with or without
\* a file and a location
InitRoutes ==
    /\ \E resume \in {NoResume} \cup
                     {[exists |-> TRUE, deleted |-> FALSE, cv_url |-> cv_url,
                       location |-> location, cand |-> cand] :
                          cv_url \in BOOLEAN, location \in {None, "Colombo"},
                          cand \in RouteCandidates} :
          rk = [phase |-> "routes", resume |-> resume, response |-> Status("none", 0)]
    /\ EngineIdleInit

\* POST /upload-cv, lines 30-103.  ok: the file is a PDF, S3 takes it and the
\* database creates the user and the resume.  ResumeModel.create is not given the
\* location (lines 71-74), so the row's location is NULL.
UploadCv(ok, location, cand, reply) ==
    /\ ~rk.resume.exists /\ ~rk.resume.deleted
    /\ IF ~ok
       THEN /\ rk' = [rk EXCEPT !.response = Status("upload", 500)]
            /\ UNCHANGED <<job_cache, pagination_state, last, held, stored>>
       ELSE /\ RecsCall(cand, RecCacheKey(location), TRUE, 1,
                        DefaultRecommendationsCount * 2, reply)
            /\ rk' = [rk EXCEPT
                        !.resume = [exists |-> TRUE, deleted |-> FALSE, cv_url |-> TRUE,
                                    location |-> None, cand |-> cand],
                        !.response =
                            IF last'.raised THEN Status("upload", 500)
                            ELSE Response("upload", 201, 1, DefaultRecommendationsCount,
                                          last'.result,
                                          Paginate(last'.result,
                                                   PageParams(1, DefaultRecommendationsCount)))]

\* GET /recommendations/{resume_id}, lines 107-150
GetRecommendations(location, refresh, page, size, reply) ==
    IF ~rk.resume.exists
    THEN /\ rk' = [rk EXCEPT !.response = Status("recs", 404)]
         /\ UNCHANGED <<job_cache, pagination_state, last, held, stored>>
    ELSE LET job_location == Or(Or(location, rk.resume.location), DefaultJobLocation)
         IN  /\ RecsCall(rk.resume.cand, RecCacheKey(job_location), refresh, page,
                         size * page + size, reply)
             /\ rk' = [rk EXCEPT
                         !.response =
                             IF last'.raised THEN Status("recs", 500)
                             ELSE Response("recs", 200, page, size, last'.result,
                                           Paginate(last'.result, PageParams(page, size)))]

\* DELETE /delete-cv/{resume_id}, lines 199-235.  db_deleted is what
\* ResumeModel.delete returns.  For a resume without cv_url, s3_deleted is not
\* bound when line 223 formats it: the exception is answered with 500 after the
\* row is deleted and before the cache is cleared.
DeleteCv(db_deleted) ==
    IF ~rk.resume.exists
    THEN /\ rk' = [rk EXCEPT !.response = Status("delete", 404)]
         /\ UNCHANGED <<job_cache, pagination_state, last, held, stored>>
    ELSE IF ~db_deleted
    THEN /\ rk' = [rk EXCEPT !.response = Status("delete", 500)]
         /\ UNCHANGED <<job_cache, pagination_state, last, held, stored>>
    ELSE IF ~rk.resume.cv_url
    THEN /\ rk' = [rk EXCEPT !.resume.exists = FALSE, !.resume.deleted = TRUE,
                             !.response = Status("delete", 500)]
         /\ UNCHANGED <<job_cache, pagination_state, last, held, stored>>
    ELSE /\ ClearKeyCall(RecCacheKey(Or(rk.resume.location, DefaultJobLocation)))
         /\ rk' = [rk EXCEPT !.resume.exists = FALSE, !.resume.deleted = TRUE,
                             !.response = Status("delete", 200)]

NextRoutes ==
    \/ \E ok \in BOOLEAN, location \in FormLocations, cand \in RouteCandidates,
          reply \in RouteReplies :
          UploadCv(ok, location, cand, reply)
    \/ \E location \in QueryLocations, refresh \in BOOLEAN, page \in Pages,
          size \in QuerySizes, reply \in RouteReplies :
          GetRecommendations(location, refresh, page, size, reply)
    \/ \E db_deleted \in BOOLEAN : DeleteCv(db_deleted)

SpecRoutes == InitRoutes /\ [][NextRoutes]_vars

\* the cache keys of the resume
ResumeKeys == {"resume_1_default", "resume_1_Remote", "resume_1_Colombo"}

\* C29: after a successful delete of a resume the engine cache holds no entry
\* that was created for that resume, whatever location the entry was created with.
C29_DeleteClearsResumeEntries ==
    (rk.response.route = "delete" /\ rk.response.status = 200) =>
        \A key \in ResumeKeys : key \notin DOMAIN job_cache

\* C30: the recommendations route does not page the engine's page again: when
\* the engine returned at least one posting for page p, the response reports
\* page p and its items begin with the first posting the engine returned.
C30_RouteKeepsEnginePage ==
    (rk.response.route = "recs" /\ rk.response.status = 200
        /\ rk.response.engine # <<>>) =>
        /\ rk.response.body.page = rk.response.page
        /\ rk.response.body.items # <<>>
        /\ rk.response.body.items[1] = rk.response.engine[1]

============================================================================
